---- MODULE Spec2Model ----
(***************************************************************************)
(* Model of the object store of wyag-rust (src/object.rs): the byte        *)
(* scanner, the read/write pipeline, reference resolution, checkout and    *)
(* the ancestry export.  Bytes, names and digests are sequences of byte    *)
(* values (ASCII codes); sequence positions reported by the program are    *)
(* 0-based as in the source, so position i is element i + 1 here.  A       *)
(* function of the source is modelled by one operator per stage, each      *)
(* stage taking the values computed so far as parameters (x, y, raw, ...). *)
(***************************************************************************)
EXTENDS Integers, Sequences, FiniteSets, TLC

(***************************************************************************)
(* Bounds of the model                                                     *)
(***************************************************************************)
MaxPayloadLen == 2      \* longest payload handed to write
MaxScanLen == 3         \* longest sequence handed to the byte scanner
MaxPrefixLen == 6       \* longest abbreviated name tried besides 39..41

(***************************************************************************)
(* Byte values and literals of the source                                  *)
(***************************************************************************)
SP == 32
NUL == 0
DigestLen == 40
MinHexLen == 4

BLOB == <<98, 108, 111, 98>>
COMMIT == <<99, 111, 109, 109, 105, 116>>
TREE == <<116, 114, 101, 101>>
TAG == <<116, 97, 103>>
OBJECTS == <<111, 98, 106, 101, 99, 116, 115>>
HEAD == <<72, 69, 65, 68>>

Kinds == {BLOB, COMMIT, TREE, TAG}

(***************************************************************************)
(* Results: Ok(v), Err(kind) and a panic (unwrap on None, slice out of     *)
(* range)                                                                  *)
(***************************************************************************)
Ok(v) == [tag |-> "ok", err |-> "", val |-> v]
Err(kind) == [tag |-> "err", err |-> kind, val |-> <<>>]
Panic(what) == [tag |-> "panic", err |-> what, val |-> <<>>]

(***************************************************************************)
(* Sequence helpers with Rust's 0-based, end-exclusive slices              *)
(***************************************************************************)
Slice(s, from, to) == SubSeq(s, from + 1, to)
SliceFrom(s, from) == SubSeq(s, from + 1, Len(s))
SliceOk(s, from, to) == from <= to /\ to <= Len(s)

starts_with(s, p) == Len(p) <= Len(s) /\ SubSeq(s, 1, Len(p)) = p

Range(s) == {s[i] : i \in 1..Len(s)}

RECURSIVE ConcatTo(_, _)
ConcatTo(ss, n) == IF n = 0 THEN <<>> ELSE ConcatTo(ss, n - 1) \o ss[n]
Concat(ss) == ConcatTo(ss, Len(ss))

(***************************************************************************)
(* usize::to_string and str::parse::<usize>                                *)
(***************************************************************************)
RECURSIVE to_string(_)
to_string(n) == IF n < 10 THEN <<48 + n>> ELSE to_string(n \div 10) \o <<48 + (n % 10)>>

IsDigit(b) == 48 <= b /\ b <= 57

RECURSIVE DigitsValue(_)
DigitsValue(s) == IF s = <<>> THEN 0 ELSE 10 * DigitsValue(SubSeq(s, 1, Len(s) - 1)) + (s[Len(s)] - 48)

\* parse::<usize> accepts an optional leading '+' followed by one or more digits
parse_digits(body) ==
    IF body # <<>> /\ \A i \in 1..Len(body) : IsDigit(body[i])
    THEN Ok(DigitsValue(body))
    ELSE Err("parse")

parse_usize(s) == parse_digits(IF s # <<>> /\ s[1] = 43 THEN Tail(s) ELSE s)

(***************************************************************************)
(* Sha1::result_str: 40 lower-case hex characters.  The digest function    *)
(* is abstracted by a deterministic pair of 16-bit checksums in hex;       *)
(* frames with equal byte sums share their first four characters.          *)
(***************************************************************************)
HexDigit(d) == IF d < 10 THEN 48 + d ELSE 87 + d

Hex4(n) == <<HexDigit((n \div 4096) % 16), HexDigit((n \div 256) % 16),
             HexDigit((n \div 16) % 16), HexDigit(n % 16)>>

RECURSIVE RangeSum(_, _, _, _)
RangeSum(s, lo, hi, weighted) ==
    IF lo > hi THEN 0
    ELSE IF lo = hi THEN (IF weighted THEN lo * s[lo] ELSE s[lo]) % 65536
    ELSE LET mid == (lo + hi) \div 2
         IN  (RangeSum(s, lo, mid, weighted) + RangeSum(s, mid + 1, hi, weighted)) % 65536

ByteSum(s) == RangeSum(s, 1, Len(s), FALSE)
BytePoly(s) == (7 + RangeSum(s, 1, Len(s), TRUE)) % 65536

Sha1(s) ==
    LET w == Hex4(ByteSum(s)) \o Hex4(BytePoly(s))
    IN  w \o w \o w \o w \o w

(***************************************************************************)
(* ZlibEncoder / ZlibDecoder: a two-byte stream header, the data and a     *)
(* trailing checksum                                                       *)
(***************************************************************************)
ZlibHeader == <<120, 156>>

ZlibEncoder(data) == ZlibHeader \o data \o <<ByteSum(data) % 256>>

ZlibDecoder(raw) ==
    IF Len(raw) >= 3 /\ SubSeq(raw, 1, 2) = ZlibHeader
       /\ raw[Len(raw)] = ByteSum(SubSeq(raw, 3, Len(raw) - 1)) % 256
    THEN Ok(SubSeq(raw, 3, Len(raw) - 1))
    ELSE Err("io")

\* Read::read_exact fills the caller's buffer: exactly buflen bytes are read
read_exact_from(stream, buflen) ==
    IF stream.tag # "ok" THEN stream
    ELSE IF Len(stream.val) < buflen THEN Err("io")
    ELSE Ok(SubSeq(stream.val, 1, buflen))

read_exact(raw, buflen) == IF buflen = 0 THEN Ok(<<>>) ELSE read_exact_from(ZlibDecoder(raw), buflen)

(***************************************************************************)
(* State: the filesystem (regular files and directories, keyed by path; a  *)
(* path is a sequence of components, a component a sequence of bytes),     *)
(* the digest HEAD resolves to, and the last call with what it returned    *)
(* and printed.                                                            *)
(***************************************************************************)
VARIABLES files, dirs, head, out

vars == <<files, dirs, head, out>>

GitDir == << <<46, 103, 105, 116>> >>
WorkDir == << <<119>> >>
NoRef == <<>>

Parent(path) == SubSeq(path, 1, Len(path) - 1)
Ancestors(path) == {SubSeq(path, 1, n) : n \in 0..Len(path)}

\* std::fs::write: creates or truncates a regular file; the parent must be a
\* directory and the path itself must not be one
fs_write(f, d, path, data) ==
    IF path \in d \/ path = <<>> \/ Parent(path) \notin d
    THEN [res |-> Err("io"), files |-> f]
    ELSE [res |-> Ok(<<>>),
          files |-> [p \in DOMAIN f \cup {path} |-> IF p = path THEN data ELSE f[p]]]

\* std::fs::read
fs_read(f, path) == IF path \in DOMAIN f THEN Ok(f[path]) ELSE Err("io")

\* std::fs::create_dir_all: fails when a component is a regular file
create_dir_all(f, d, path) ==
    IF \E a \in Ancestors(path) : a \in DOMAIN f
    THEN [res |-> Err("io"), dirs |-> d]
    ELSE [res |-> Ok(<<>>), dirs |-> d \cup Ancestors(path)]

\* std::fs::read_dir: the names of the entries of a directory
read_dir(f, d, path) ==
    {p[Len(p)] : p \in {q \in DOMAIN f \cup d : q # <<>> /\ Parent(q) = path}}

(***************************************************************************)
(* Repository context: file(components, mkdir) names a file below the      *)
(* repository directory and needs its parent directory, dir(components,    *)
(* mkdir) names a directory; either creates what is missing only when      *)
(* mkdir is set.                                                           *)
(***************************************************************************)
RepositoryMkdir(path, c) ==
    [res |-> IF c.res.tag = "ok" THEN Ok(path) ELSE c.res, dirs |-> c.dirs]

RepositoryDirAt(f, d, path, mkdir) ==
    IF path \in d THEN [res |-> Ok(path), dirs |-> d]
    ELSE IF path \in DOMAIN f THEN [res |-> Err("io"), dirs |-> d]
    ELSE IF mkdir THEN RepositoryMkdir(path, create_dir_all(f, d, path))
    ELSE [res |-> Err("io"), dirs |-> d]

RepositoryDir(f, d, comps, mkdir) == RepositoryDirAt(f, d, GitDir \o comps, mkdir)

RepositoryFileIn(comps, parent) ==
    [res |-> IF parent.res.tag = "ok" THEN Ok(GitDir \o comps) ELSE parent.res,
     dirs |-> parent.dirs]

RepositoryFile(f, d, comps, mkdir) ==
    RepositoryFileIn(comps, RepositoryDir(f, d, Parent(comps), mkdir))

\* reference::resolve(repo, "HEAD")
reference_resolve(h) == IF h = NoRef THEN Err("io") ELSE Ok(h)

(***************************************************************************)
(* Byte scanner (impl Find<T> for Vec<T>): iter().skip(start).position()   *)
(***************************************************************************)
Some(v) == [tag |-> "some", val |-> v]
None == [tag |-> "none", val |-> 0]

Min(S) == CHOOSE m \in S : \A n \in S : m <= n

skip(s, start) == IF start >= Len(s) THEN <<>> ELSE SliceFrom(s, start)

position(s, element) ==
    LET hits == {i \in 1..Len(s) : s[i] = element}
    IN  IF hits = {} THEN None ELSE Some(Min(hits) - 1)

\* Option::ok_or(io_err(..)), the match of find_signed, Option::unwrap
ok_or(p) == IF p.tag = "some" THEN Ok(p.val) ELSE Err("io")
signed(p) == IF p.tag = "some" THEN p.val ELSE -1
unwrap(p) == IF p.tag = "some" THEN Ok(p.val) ELSE Panic("unwrap")

find_some(s, element, start) == position(skip(s, start), element)
find_from(s, element, start) == ok_or(position(skip(s, start), element))
find_signed(s, element, start) == signed(position(skip(s, start), element))
find_exact(s, element, start) == unwrap(position(skip(s, start), element))

\* Find::find, the provided method
find_first(s, element) == find_from(s, element, 0)

(***************************************************************************)
(* Replace::replace for Vec<u8>                                            *)
(***************************************************************************)
RECURSIVE replace_loop(_, _, _, _, _)

\* one turn of the loop, end being what find_some returned
replace_end(s, from, to, start, result, end) ==
    IF end.tag = "none"
    THEN IF start > Len(s) THEN Panic("slice") ELSE Ok(result \o SliceFrom(s, start))
    ELSE IF ~SliceOk(s, start, end.val) THEN Panic("slice")
    ELSE replace_loop(s, from, to, end.val + Len(from), result \o Slice(s, start, end.val) \o to)

replace_loop(s, from, to, start, result) ==
    replace_end(s, from, to, start, result, find_some(s, from[1], start))

replace(s, from, to) ==
    IF from = <<>> THEN Panic("index") ELSE replace_loop(s, from, to, 0, <<>>)

(***************************************************************************)
(* Object model: a WitObject is one of four variants.  Each carries the    *)
(* bytes its serialize() yields, its key/value map (commit, tag), its      *)
(* leaves (tree) and whether it has a repository.                          *)
(***************************************************************************)
EmptyKvlm == [k \in {} |-> <<>>]

WitObject(variant, payload, kvlm, leaves, repo) ==
    [variant |-> variant, payload |-> payload, kvlm |-> kvlm, leaves |-> leaves, repo |-> repo]

serialize(obj) == Ok(obj.payload)
fmt(obj) == obj.variant
repo(obj) == IF obj.repo THEN Some(TRUE) ELSE None

\* Tree::from: entries "<mode> <path>\0<digest>", the digest as 40 hex characters
RECURSIVE TreeFrom(_)

TreeLeaves(leaf, rest) == IF rest.tag = "ok" THEN Ok(<<leaf>> \o rest.val) ELSE rest

TreeLeaf(data, x, y) ==
    IF x.tag = "none" \/ y.tag = "none" THEN Err("parse")
    ELSE IF y.val < x.val \/ Len(data) < y.val + 1 + DigestLen THEN Err("parse")
    ELSE TreeLeaves([mode |-> Slice(data, 0, x.val),
                     path |-> Slice(data, x.val + 1, y.val),
                     sha |-> Slice(data, y.val + 1, y.val + 1 + DigestLen)],
                    TreeFrom(SliceFrom(data, y.val + 1 + DigestLen)))

TreeFrom(data) ==
    IF data = <<>> THEN Ok(<<>>)
    ELSE TreeLeaf(data, find_some(data, SP, 0), find_some(data, NUL, 0))

build_tree(data, tree) ==
    IF tree.tag = "ok" THEN Ok(WitObject(TREE, data, EmptyKvlm, tree.val, FALSE)) ELSE tree

build(kind, hasRepo, data) ==
    IF kind = BLOB
    THEN IF data.tag = "none" THEN Err("missing_data")
         ELSE Ok(WitObject(BLOB, data.val, EmptyKvlm, <<>>, hasRepo))
    ELSE IF kind = COMMIT
    THEN Ok(WitObject(COMMIT, <<>>, EmptyKvlm, <<>>, hasRepo))
    ELSE IF kind = TREE
    THEN IF data.tag = "none" THEN Err("missing_data") ELSE build_tree(data.val, TreeFrom(data.val))
    ELSE IF kind = TAG
    THEN Ok(WitObject(TAG, <<>>, EmptyKvlm, <<>>, hasRepo))
    ELSE Err("unknown_object")

(***************************************************************************)
(* write                                                                   *)
(***************************************************************************)
Frame(kind, data) == kind \o <<SP>> \o to_string(Len(data)) \o <<NUL>> \o data

ObjectPath(sha) == GitDir \o <<OBJECTS, Slice(sha, 0, 2), SliceFrom(sha, 2)>>

\* fs::write(path, encoder.finish()) and the returned digest
write_file(sha, d, written) ==
    [res |-> IF written.res.tag = "ok" THEN Ok(sha) ELSE written.res,
     files |-> written.files, dirs |-> d]

write_path(f, result, sha, path) ==
    IF path.res.tag # "ok" THEN [res |-> path.res, files |-> f, dirs |-> path.dirs]
    ELSE write_file(sha, path.dirs, fs_write(f, path.dirs, path.res.val, ZlibEncoder(result)))

write_sha(f, d, obj, actually_write, result, sha) ==
    IF ~actually_write THEN [res |-> Ok(sha), files |-> f, dirs |-> d]
    ELSE IF repo(obj).tag = "none" THEN [res |-> Err("repo_not_found"), files |-> f, dirs |-> d]
    ELSE write_path(f, result, sha, RepositoryFile(f, d, <<OBJECTS>>, actually_write))

write_result(f, d, obj, actually_write, result) ==
    write_sha(f, d, obj, actually_write, result, Sha1(result))

write_data(f, d, obj, actually_write, data) ==
    IF data.tag # "ok" THEN [res |-> data, files |-> f, dirs |-> d]
    ELSE write_result(f, d, obj, actually_write,
                      fmt(obj) \o <<SP>> \o to_string(Len(data.val)) \o <<NUL>> \o data.val)

write(f, d, obj, actually_write) == write_data(f, d, obj, actually_write, serialize(obj))

(***************************************************************************)
(* read                                                                    *)
(***************************************************************************)
read_size(raw, decoded, x, y, size) ==
    IF size.tag # "ok" THEN size
    ELSE IF size.val # Len(decoded) - y - 1 THEN Err("malformed_object")
    ELSE IF y + 1 > Len(raw) THEN Panic("slice")
    ELSE build(Slice(decoded, 0, x), TRUE, Some(SliceFrom(raw, y + 1)))

read_y(raw, decoded, x, y) ==
    IF y.tag # "ok" THEN y
    ELSE IF ~SliceOk(decoded, x, y.val) THEN Panic("slice")
    ELSE read_size(raw, decoded, x, y.val, parse_usize(Slice(decoded, x, y.val)))

read_x(raw, decoded, x) ==
    IF x.tag # "ok" THEN x
    ELSE read_y(raw, decoded, x.val, find_first(SliceFrom(decoded, x.val), NUL))

read_decoded(raw, decoded) ==
    IF decoded.tag # "ok" THEN decoded
    ELSE read_x(raw, decoded.val, find_first(decoded.val, SP))

\* decoded is Vec::new(): read_exact is handed a buffer of length 0
read_raw(raw) ==
    IF raw.tag # "ok" THEN raw
    ELSE read_decoded(raw.val, read_exact(raw.val, Len(<<>>)))

read_path(f, path) == IF path.tag # "ok" THEN path ELSE read_raw(fs_read(f, path.val))

read(f, d, sha) ==
    IF Len(sha) < 2 THEN Panic("slice")
    ELSE read_path(f, RepositoryFile(f, d, <<OBJECTS, Slice(sha, 0, 2), SliceFrom(sha, 2)>>, FALSE).res)

(***************************************************************************)
(* resolve.  The candidates come from a directory listing, whose order is  *)
(* unspecified: they are kept as a set.                                    *)
(***************************************************************************)
IsWhite(b) == b \in {9, 10, 11, 12, 13, 32}
IsHex(b) == (48 <= b /\ b <= 57) \/ (97 <= b /\ b <= 102) \/ (65 <= b /\ b <= 70)

RECURSIVE trim_start(_)
trim_start(name) == IF name # <<>> /\ IsWhite(name[1]) THEN trim_start(Tail(name)) ELSE name

RECURSIVE trim_end(_)
trim_end(name) ==
    IF name # <<>> /\ IsWhite(name[Len(name)]) THEN trim_end(SubSeq(name, 1, Len(name) - 1)) ELSE name

trim(name) == trim_end(trim_start(name))

\* Regex ^[0-9a-fA-F]{4,40}$
hash_re_is_match(name) ==
    MinHexLen <= Len(name) /\ Len(name) <= DigestLen /\ \A i \in 1..Len(name) : IsHex(name[i])

to_lowercase(name) == [i \in 1..Len(name) |-> IF 65 <= name[i] /\ name[i] <= 90 THEN name[i] + 32 ELSE name[i]]

\* the directory listing filtered by the remainder of the name
resolve_prefix(f, d, prefix, rem, path) ==
    IF path.tag = "ok"
    THEN Ok(Some({prefix \o file : file \in {e \in read_dir(f, d, path.val) : starts_with(e, rem)}}))
    ELSE Ok(Some({}))

\* name is the lower-cased name
resolve_hash(f, d, name) ==
    IF Len(name) = DigestLen THEN Ok(Some({name}))
    ELSE resolve_prefix(f, d, Slice(name, 0, 2), SliceFrom(name, 2),
                        RepositoryDir(f, d, <<OBJECTS, Slice(name, 0, 2)>>, FALSE).res)

resolve_head(target) == IF target.tag = "ok" THEN Ok(Some({target.val})) ELSE target

\* resolve without the lower-casing of line 203
resolve_keeps_case(f, d, h, name) ==
    IF Len(trim(name)) = 0 THEN Ok(None)
    ELSE IF name = HEAD THEN resolve_head(reference_resolve(h))
    ELSE IF hash_re_is_match(name) THEN resolve_hash(f, d, name)
    ELSE Ok(Some({}))

resolve(f, d, h, name) ==
    IF Len(trim(name)) = 0 THEN Ok(None)
    ELSE IF name = HEAD THEN resolve_head(reference_resolve(h))
    ELSE IF hash_re_is_match(name) THEN resolve_hash(f, d, to_lowercase(name))
    ELSE Ok(Some({}))

(***************************************************************************)
(* find                                                                    *)
(***************************************************************************)
ErrWith(kind, v) == [tag |-> "err", err |-> kind, val |-> v]

\* kvlm().get(key).unwrap().get(0).unwrap()
kvlm_first(obj, key) ==
    IF key \notin DOMAIN obj.kvlm THEN Panic("unwrap")
    ELSE IF obj.kvlm[key] = <<>> THEN Panic("unwrap")
    ELSE Ok(obj.kvlm[key][1])

\* the digest the link names is computed and dropped: line 187 returns the error
find_followed(link) == IF link.tag = "panic" THEN link ELSE Err("unknown_object")

find_obj(sha, wanted, follow, obj) ==
    IF obj.tag # "ok" THEN obj
    ELSE IF fmt(obj.val) = wanted THEN Ok(sha)
    ELSE IF ~follow THEN Err("unknown_object")
    ELSE IF obj.val.variant = TAG THEN find_followed(kvlm_first(obj.val, "object"))
    ELSE IF obj.val.variant = COMMIT /\ wanted = TREE THEN find_followed(kvlm_first(obj.val, "tree"))
    ELSE Err("unknown_object")

find_sha(f, d, wanted, follow, sha) ==
    IF wanted.tag = "none" THEN Ok(sha) ELSE find_obj(sha, wanted.val, follow, read(f, d, sha))

find_candidates(f, d, wanted, follow, candidates) ==
    IF Cardinality(candidates) > 1 THEN ErrWith("ambiguous_reference", candidates)
    ELSE IF candidates = {} THEN Panic("unwrap")
    ELSE find_sha(f, d, wanted, follow, CHOOSE c \in candidates : TRUE)

find_resolved(f, d, wanted, follow, resolved) ==
    IF resolved.tag # "ok" THEN resolved
    ELSE IF resolved.val.tag = "none" THEN Err("unknown_reference")
    ELSE find_candidates(f, d, wanted, follow, resolved.val.val)

find(f, d, h, name, wanted, follow) == find_resolved(f, d, wanted, follow, resolve(f, d, h, name))

(***************************************************************************)
(* graphviz: the result, the seen vector and the edge lines printed.  The  *)
(* recursion is unfolded on an explicit call stack: a frame is a call of   *)
(* graphviz inside its loop over the parents, with the index of the next   *)
(* parent.  An error (the ? operator) unwinds every frame.                 *)
(***************************************************************************)
Contains(s, e) == \E i \in 1..Len(s) : s[i] = e

\* the match on what read returned, and the entry into the loop
graphviz_commit(g, sha, obj) ==
    IF obj.tag # "ok" THEN [g EXCEPT !.res = obj]
    ELSE IF obj.val.variant # COMMIT THEN [g EXCEPT !.res = Err("unknown_object")]
    ELSE IF fmt(obj.val) # COMMIT THEN [g EXCEPT !.res = Err("malformed_object")]
    ELSE IF "parent" \notin DOMAIN obj.val.kvlm THEN g
    ELSE [g EXCEPT !.stack = <<[sha |-> sha, parents |-> obj.val.kvlm["parent"], i |-> 1]>>
                                  \o g.stack]

\* entry of graphviz(repo, sha, seen) up to its loop
graphviz_enter(f, d, g, sha) ==
    IF Contains(g.seen, sha) THEN g
    ELSE graphviz_commit([g EXCEPT !.seen = Append(g.seen, sha)], sha, read(f, d, sha))

\* one turn of the loop of the innermost call, top: print the edge and recurse
graphviz_parent(f, d, g, top) ==
    IF top.i > Len(top.parents) THEN [g EXCEPT !.stack = Tail(g.stack)]
    ELSE graphviz_enter(f, d,
             [g EXCEPT !.printed = Append(g.printed, <<top.sha, top.parents[top.i]>>),
                       !.stack = <<[top EXCEPT !.i = top.i + 1]>> \o Tail(g.stack)],
             top.parents[top.i])

RECURSIVE graphviz_run(_, _, _)
graphviz_run(f, d, g) ==
    IF g.res.tag # "ok" \/ g.stack = <<>> THEN g
    ELSE graphviz_run(f, d, graphviz_parent(f, d, g, g.stack[1]))

graphviz(f, d, sha, seen, printed) ==
    graphviz_run(f, d, graphviz_enter(f, d,
        [res |-> Ok(<<>>), seen |-> seen, printed |-> printed, stack |-> <<>>], sha))

(***************************************************************************)
(* checkout: the result and the filesystem it leaves.  The recursion is    *)
(* unfolded on an explicit call stack: a frame is a call of checkout with  *)
(* its leaves, the index of the next leaf and its destination.             *)
(***************************************************************************)
checkout_blob(c, rest, written) ==
    [c EXCEPT !.res = written.res, !.files = written.files, !.stack = rest]

checkout_tree(c, rest, leaves, dest, made) ==
    [c EXCEPT !.res = made.res, !.dirs = made.dirs,
              !.stack = <<[leaves |-> leaves, i |-> 1, path |-> dest]>> \o rest]

\* the match on obj; rest is the caller's frame advanced to its next leaf
checkout_obj(c, path, dest, rest, obj) ==
    IF obj.tag # "ok" THEN [c EXCEPT !.res = obj]
    ELSE IF obj.val.variant = BLOB
    THEN checkout_blob(c, rest, fs_write(c.files, c.dirs, dest, obj.val.payload))
    ELSE IF obj.val.variant = TREE
    THEN checkout_tree(c, rest, obj.val.leaves, dest, create_dir_all(c.files, c.dirs, dest))
    ELSE [c EXCEPT !.res = ErrWith("unknown_object", [path |-> path, kind |-> fmt(obj.val)])]

\* one turn of the loop of the innermost call, top
checkout_leaf(c, top) ==
    IF top.i > Len(top.leaves) THEN [c EXCEPT !.stack = Tail(c.stack)]
    ELSE checkout_obj(c, top.path, top.path \o <<top.leaves[top.i].path>>,
                      <<[top EXCEPT !.i = top.i + 1]>> \o Tail(c.stack),
                      read(c.files, c.dirs, top.leaves[top.i].sha))

RECURSIVE checkout_run(_)
checkout_run(c) ==
    IF c.res.tag # "ok" \/ c.stack = <<>> THEN c ELSE checkout_run(checkout_leaf(c, c.stack[1]))

checkout(f, d, leaves, path) ==
    checkout_run([res |-> Ok(<<>>), files |-> f, dirs |-> d,
                  stack |-> <<[leaves |-> leaves, i |-> 1, path |-> path]>>])

(***************************************************************************)
(* Repositories the program is started on.  The objects below are what a   *)
(* compatible tool stored: each is described by its kind and its links,    *)
(* its payload is the serialisation of those, and it is stored compressed  *)
(* under the digest of its frame.                                          *)
(***************************************************************************)
KvLine(key, value) == key \o <<SP>> \o value \o <<10>>
LeafEntry(mode, path, sha) == mode \o <<SP>> \o path \o <<NUL>> \o sha

ModeFile == <<49, 48, 48, 54, 52, 52>>
ModeDir == <<52, 48, 48, 48, 48>>
KeyTree == TREE
KeyParent == <<112, 97, 114, 101, 110, 116>>
KeyObject == <<111, 98, 106, 101, 99, 116>>

CommitPayload(tree, parents, msg) ==
    KvLine(KeyTree, tree) \o Concat([i \in 1..Len(parents) |-> KvLine(KeyParent, parents[i])])
        \o <<10>> \o msg

Digest(kind, data) == Sha1(Frame(kind, data))

B1Data == <<97, 98>>
B2Data == <<98, 97>>
B1Sha == Digest(BLOB, B1Data)
B2Sha == Digest(BLOB, B2Data)

T2Leaves == <<[mode |-> ModeFile, path |-> <<98>>, sha |-> B2Sha]>>
T2Data == LeafEntry(ModeFile, <<98>>, B2Sha)
T2Sha == Digest(TREE, T2Data)
T1Leaves == <<[mode |-> ModeFile, path |-> <<97>>, sha |-> B1Sha],
              [mode |-> ModeDir, path |-> <<115>>, sha |-> T2Sha]>>
T1Data == LeafEntry(ModeFile, <<97>>, B1Sha) \o LeafEntry(ModeDir, <<115>>, T2Sha)
T1Sha == Digest(TREE, T1Data)

C1Data == CommitPayload(T1Sha, <<>>, <<49>>)
C1Sha == Digest(COMMIT, C1Data)
C2Data == CommitPayload(T1Sha, <<C1Sha>>, <<50>>)
C2Sha == Digest(COMMIT, C2Data)
C3Data == CommitPayload(T1Sha, <<C2Sha>>, <<51>>)
C3Sha == Digest(COMMIT, C3Data)
S2Data == CommitPayload(T1Sha, <<C1Sha>>, <<115>>)
S2Sha == Digest(COMMIT, S2Data)
MData == CommitPayload(T1Sha, <<C2Sha, S2Sha>>, <<109>>)
MSha == Digest(COMMIT, MData)

\* a corrupt pair of commits naming each other as parent
XSha == Sha1(<<120>>)
YSha == Sha1(<<121>>)
XData == CommitPayload(T1Sha, <<YSha>>, <<120>>)
YData == CommitPayload(T1Sha, <<XSha>>, <<121>>)

TagData == KvLine(KeyObject, C1Sha) \o <<10>>
TagSha == Digest(TAG, TagData)

\* a corrupt tree: its second leaf names a tag
T3Leaves == <<[mode |-> ModeFile, path |-> <<97>>, sha |-> B1Sha],
              [mode |-> ModeFile, path |-> <<116>>, sha |-> TagSha],
              [mode |-> ModeFile, path |-> <<99>>, sha |-> B2Sha]>>
T3Data == LeafEntry(ModeFile, <<97>>, B1Sha) \o LeafEntry(ModeFile, <<116>>, TagSha)
              \o LeafEntry(ModeFile, <<99>>, B2Sha)
T3Sha == Digest(TREE, T3Data)

NoLinks == [parents |-> <<>>, tree |-> NoRef, object |-> NoRef, leaves |-> <<>>]

StoredSeq ==
    LET o(sha, kind, data, links) == [sha |-> sha, kind |-> kind, data |-> data, links |-> links]
    IN  << o(B1Sha, BLOB, B1Data, NoLinks),
           o(B2Sha, BLOB, B2Data, NoLinks),
           o(T2Sha, TREE, T2Data, [NoLinks EXCEPT !.leaves = T2Leaves]),
           o(T1Sha, TREE, T1Data, [NoLinks EXCEPT !.leaves = T1Leaves]),
           o(T3Sha, TREE, T3Data, [NoLinks EXCEPT !.leaves = T3Leaves]),
           o(C1Sha, COMMIT, C1Data, [NoLinks EXCEPT !.tree = T1Sha]),
           o(C2Sha, COMMIT, C2Data, [NoLinks EXCEPT !.tree = T1Sha, !.parents = <<C1Sha>>]),
           o(C3Sha, COMMIT, C3Data, [NoLinks EXCEPT !.tree = T1Sha, !.parents = <<C2Sha>>]),
           o(S2Sha, COMMIT, S2Data, [NoLinks EXCEPT !.tree = T1Sha, !.parents = <<C1Sha>>]),
           o(MSha, COMMIT, MData, [NoLinks EXCEPT !.tree = T1Sha, !.parents = <<C2Sha, S2Sha>>]),
           o(XSha, COMMIT, XData, [NoLinks EXCEPT !.tree = T1Sha, !.parents = <<YSha>>]),
           o(YSha, COMMIT, YData, [NoLinks EXCEPT !.tree = T1Sha, !.parents = <<XSha>>]),
           o(TagSha, TAG, TagData, [NoLinks EXCEPT !.object = C1Sha]) >>

Stored == Range(StoredSeq)
StoredShas == {o.sha : o \in Stored}
StoredAt(sha) == CHOOSE o \in Stored : o.sha = sha

BaseDirs == {<<>>, GitDir, WorkDir}
ObjectsDir == GitDir \o <<OBJECTS>>

RECURSIVE FilesOf(_, _)
FilesOf(objects, n) ==
    IF n = 0 THEN [p \in {} |-> <<>>]
    ELSE (ObjectPath(objects[n].sha) :> ZlibEncoder(Frame(objects[n].kind, objects[n].data)))
            @@ FilesOf(objects, n - 1)

PopulatedFiles == FilesOf(StoredSeq, Len(StoredSeq))
DirsOf(f) == BaseDirs \cup {ObjectsDir} \cup {Parent(p) : p \in DOMAIN f}

\* the same repository after the declared length of one frame was altered
TamperedFrame == BLOB \o <<SP>> \o to_string(Len(B1Data) + 1) \o <<NUL>> \o B1Data
Tampered(f) == [f EXCEPT ![ObjectPath(B1Sha)] = ZlibEncoder(TamperedFrame)]

NoFiles == [p \in {} |-> <<>>]

Init ==
    /\ \/ files = NoFiles /\ dirs = BaseDirs /\ head = NoRef
       \/ files = NoFiles /\ dirs = BaseDirs \cup {ObjectsDir} /\ head = NoRef
       \/ /\ \E tampered \in BOOLEAN :
                files = IF tampered THEN Tampered(PopulatedFiles) ELSE PopulatedFiles
          /\ dirs = DirsOf(files)
          /\ head \in {NoRef, C3Sha}
    /\ out = [op |-> "init"]

(***************************************************************************)
(* Inputs                                                                  *)
(***************************************************************************)
SeqsUpTo(S, n) == UNION {[1..k -> S] : k \in 0..n}

\* "", "b", "ba", ... and the payload of a stored tree
Payloads == {[i \in 1..k |-> 97 + (i % 2)] : k \in 0..MaxPayloadLen} \cup {T2Data}

\* objects as build makes them, and objects a caller filled in itself
BuiltObjects ==
    {b.val : b \in {c \in {build(k, r, Some(p)) : k \in Kinds, r \in BOOLEAN, p \in Payloads} :
                        c.tag = "ok"}}
FilledObjects ==
    {WitObject(k, p, EmptyKvlm, <<>>, TRUE) :
        k \in {COMMIT, TAG}, p \in Payloads \ {<<>>, T2Data}}
WriteObjects == BuiltObjects \cup FilledObjects

DeadBeef == <<100, 101, 97, 100, 98, 101, 101, 102>>
DeadBeef40 == DeadBeef \o DeadBeef \o DeadBeef \o DeadBeef \o DeadBeef
Zzzz == <<122, 122, 122, 122>>

Upper(name) == [i \in 1..Len(name) |-> IF 97 <= name[i] /\ name[i] <= 122 THEN name[i] - 32 ELSE name[i]]

\* the digests a caller has at hand: those of the object files on disk, the one
\* the last write returned, and one that names nothing
ObjectFiles == {p \in DOMAIN files : Len(p) = Len(ObjectsDir) + 2 /\ starts_with(p, ObjectsDir)}
DigestsOnDisk == {p[Len(p) - 1] \o p[Len(p)] : p \in ObjectFiles}
LastWritten == IF out.op = "write" /\ out.res.tag = "ok" THEN {out.res.val} ELSE {}
KnownDigests == DigestsOnDisk \cup {DeadBeef40} \cup LastWritten

NameLens == {0} \cup ((MinHexLen - 1)..MaxPrefixLen) \cup {DigestLen - 1, DigestLen}
ResolveNames ==
    {Slice(b, 0, n) : b \in KnownDigests, n \in NameLens}
    \cup {Upper(Slice(b, 0, n)) : b \in KnownDigests, n \in {MinHexLen, DigestLen}}
    \cup {b \o <<48>> : b \in KnownDigests}
    \cup {HEAD, to_lowercase(HEAD), <<SP>> \o HEAD, <<SP>>, <<SP, 9>>, Zzzz, <<SP>> \o DeadBeef}

\* find is called with abbreviated digests, and with full ones
FindNames ==
    {<<>>, HEAD, Zzzz, DeadBeef, DeadBeef40} \cup LastWritten \cup {Slice(b, 0, MinHexLen) : b \in KnownDigests}
Wanted == {None} \cup {Some(k) : k \in Kinds}

\* the frame below the compression of a stored file, and its parts
FrameAt(path) == ZlibDecoder(files[path])
HeaderEnd(frame) == Min({i \in 1..Len(frame) : frame[i] = NUL})
FrameKind(frame) == SubSeq(frame, 1, Min({i \in 1..Len(frame) : frame[i] = SP}) - 1)
FramePayload(frame) == SubSeq(frame, HeaderEnd(frame) + 1, Len(frame))

\* the trees a caller hands to checkout: those stored on disk, and the empty one
CheckoutTrees ==
    {<<>>} \cup {TreeFrom(FramePayload(FrameAt(p).val)).val :
                    p \in {q \in ObjectFiles : FrameAt(q).tag = "ok" /\ FrameKind(FrameAt(q).val) = TREE}}

ScanSeqs == SeqsUpTo({1, 2}, MaxScanLen)
ScanStarts == 0..(MaxScanLen + 1)

(***************************************************************************)
(* Calls                                                                   *)
(***************************************************************************)
CallWrite(obj, actually_write) ==
    \E w \in {write(files, dirs, obj, actually_write)} :
        /\ files' = w.files
        /\ dirs' = w.dirs
        /\ out' = [op |-> "write", obj |-> obj, actually_write |-> actually_write, res |-> w.res]
        /\ UNCHANGED head

CallRead(sha) ==
    /\ out' = [op |-> "read", sha |-> sha, res |-> read(files, dirs, sha)]
    /\ UNCHANGED <<files, dirs, head>>

CallResolve(name) ==
    /\ out' = [op |-> "resolve", name |-> name, res |-> resolve(files, dirs, head, name)]
    /\ UNCHANGED <<files, dirs, head>>

CallFind(name, wanted, follow) ==
    /\ out' = [op |-> "find", name |-> name, wanted |-> wanted, follow |-> follow,
               res |-> find(files, dirs, head, name, wanted, follow)]
    /\ UNCHANGED <<files, dirs, head>>

CallGraphviz(sha) ==
    \E g \in {graphviz(files, dirs, sha, <<>>, <<>>)} :
        /\ out' = [op |-> "graphviz", sha |-> sha, res |-> g.res, seen |-> g.seen,
                   printed |-> g.printed]
        /\ UNCHANGED <<files, dirs, head>>

CallCheckout(leaves, path) ==
    \E c \in {checkout(files, dirs, leaves, path)} :
        /\ files' = c.files
        /\ dirs' = c.dirs
        /\ out' = [op |-> "checkout", leaves |-> leaves, path |-> path, res |-> c.res]
        /\ UNCHANGED head

CallFindFrom(s, element, start) ==
    /\ out' = [op |-> "find_from", s |-> s, element |-> element, start |-> start,
               res |-> find_from(s, element, start)]
    /\ UNCHANGED <<files, dirs, head>>

CallFindSome(s, element, start) ==
    /\ out' = [op |-> "find_some", s |-> s, element |-> element, start |-> start,
               res |-> find_some(s, element, start)]
    /\ UNCHANGED <<files, dirs, head>>

CallFindSigned(s, element, start) ==
    /\ out' = [op |-> "find_signed", s |-> s, element |-> element, start |-> start,
               res |-> find_signed(s, element, start)]
    /\ UNCHANGED <<files, dirs, head>>

CallFindExact(s, element, start) ==
    /\ out' = [op |-> "find_exact", s |-> s, element |-> element, start |-> start,
               res |-> find_exact(s, element, start)]
    /\ UNCHANGED <<files, dirs, head>>

CallReplace(s, from, to) ==
    /\ out' = [op |-> "replace", s |-> s, from |-> from, to |-> to, res |-> replace(s, from, to)]
    /\ UNCHANGED <<files, dirs, head>>

Next ==
    \/ \E obj \in WriteObjects, actually_write \in BOOLEAN : CallWrite(obj, actually_write)
    \/ \E sha \in KnownDigests : CallRead(sha)
    \/ \E name \in ResolveNames : CallResolve(name)
    \/ \E name \in FindNames, wanted \in Wanted, follow \in BOOLEAN : CallFind(name, wanted, follow)
    \/ \E sha \in KnownDigests : CallGraphviz(sha)
    \/ \E leaves \in CheckoutTrees : CallCheckout(leaves, WorkDir)

Spec == Init /\ [][Next]_vars

\* the byte scanner and replace are pure: they are exercised on their own
InitScan == files = NoFiles /\ dirs = BaseDirs /\ head = NoRef /\ out = [op |-> "init"]

NextScan ==
    \/ \E s \in ScanSeqs, element \in {1, 2}, start \in ScanStarts : CallFindFrom(s, element, start)
    \/ \E s \in ScanSeqs, element \in {1, 2}, start \in ScanStarts : CallFindSome(s, element, start)
    \/ \E s \in ScanSeqs, element \in {1, 2}, start \in ScanStarts : CallFindSigned(s, element, start)
    \/ \E s \in ScanSeqs, element \in {1, 2}, start \in ScanStarts : CallFindExact(s, element, start)
    \/ \E s \in ScanSeqs, from \in SeqsUpTo({1, 2}, 2), to \in {<<>>, <<2>>, <<3, 3>>} :
            CallReplace(s, from, to)

SpecScan == InitScan /\ [][NextScan]_vars

TypeOK ==
    /\ <<>> \in dirs
    /\ out.op \in {"init", "write", "read", "resolve", "find", "graphviz", "checkout",
                   "find_from", "find_some", "find_signed", "find_exact", "replace"}

(***************************************************************************)
(* What the stored bytes say, read the way the storage format defines it   *)
(***************************************************************************)
Intact(sha) ==
    /\ sha \in StoredShas
    /\ ObjectPath(sha) \in DOMAIN files
    /\ files[ObjectPath(sha)] = ZlibEncoder(Frame(StoredAt(sha).kind, StoredAt(sha).data))

\* the declared length and the payload length of a frame
DeclaredLen(frame) ==
    DigitsValue(SubSeq(frame, Min({i \in 1..Len(frame) : frame[i] = SP}) + 1, HeaderEnd(frame) - 1))
PayloadLen(frame) == Len(frame) - HeaderEnd(frame)

(***************************************************************************)
(* C1: an object made by build and written with persist = true is read     *)
(* back, under the digest write returned, with its kind and its payload.   *)
(***************************************************************************)
RoundTrip ==
    (out.op = "write" /\ out.actually_write /\ out.res.tag = "ok") =>
        \A k \in Kinds, p \in Payloads :
            LET b == build(k, TRUE, Some(p))
            IN  (b.tag = "ok" /\ b.val = out.obj) =>
                    LET r == read(files, dirs, out.res.val)
                    IN  r.tag = "ok" /\ fmt(r.val) = k /\ r.val.payload = p

(***************************************************************************)
(* C2: a persisting write that returns digest D leaves the compressed      *)
(* frame at objects/<D[0..2]>/<D[2..]>, the path read looks D up under,    *)
(* and creates exactly that one file when it was absent.                   *)
(***************************************************************************)
WriteStoresAtFanOutPath ==
    [][(out'.op = "write" /\ out'.actually_write /\ out'.res.tag = "ok") =>
          LET path == ObjectPath(out'.res.val)
          IN  /\ path \in DOMAIN files'
              /\ files'[path] = ZlibEncoder(Frame(fmt(out'.obj), out'.obj.payload))
              /\ path \notin DOMAIN files => DOMAIN files' = DOMAIN files \cup {path}]_vars

(***************************************************************************)
(* C3: find needs exactly one candidate from resolve: with none it returns *)
(* an unknown-reference error, with several an ambiguous-reference error   *)
(* listing all of them; it neither panics nor returns a digest.            *)
(***************************************************************************)
FindNeedsOneCandidate ==
    out.op = "find" =>
        LET r == resolve(files, dirs, head, out.name)
            candidates == IF r.val.tag = "none" THEN {} ELSE r.val.val
        IN  r.tag = "ok" =>
              /\ candidates = {} => out.res.tag = "err" /\ out.res.err = "unknown_reference"
              /\ Cardinality(candidates) > 1 =>
                    /\ out.res.tag = "err"
                    /\ out.res.err = "ambiguous_reference"
                    /\ out.res.val = candidates

(***************************************************************************)
(* C4: resolve applies its rules in order: a blank name gives no           *)
(* candidates; HEAD gives the digest of the symbolic reference; 40 hex     *)
(* characters give that name lower-cased, stored or not; 4 to 39 hex       *)
(* characters give the digests on disk that start with the lower-cased     *)
(* name, none when the fan-out directory is missing; any other name gives  *)
(* none.  None of these is an error.                                       *)
(***************************************************************************)
ResolveRules ==
    out.op = "resolve" =>
        LET name == out.name
            r == out.res
            blank == \A i \in 1..Len(name) : IsWhite(name[i])
            hex == Len(name) >= MinHexLen /\ Len(name) <= DigestLen
                   /\ \A i \in 1..Len(name) : IsHex(name[i])
            gives(S) == r.tag = "ok" /\ r.val.tag = "some" /\ r.val.val = S
        IN  /\ blank => r.tag = "ok" /\ r.val.tag = "none"
            /\ (name = HEAD /\ head # NoRef) => gives({head})
            /\ (hex /\ Len(name) = DigestLen) => gives({to_lowercase(name)})
            /\ (hex /\ Len(name) < DigestLen) =>
                  /\ gives({sha \in DigestsOnDisk : starts_with(sha, to_lowercase(name))})
                  /\ (GitDir \o <<OBJECTS, SubSeq(to_lowercase(name), 1, 2)>>) \notin dirs => gives({})
            /\ (~blank /\ name # HEAD /\ ~hex) => gives({})

\* an abbreviated name in upper case that two stored objects share
ResolveRulesWitness ==
    /\ out.op = "resolve"
    /\ Len(out.name) >= MinHexLen /\ Len(out.name) < DigestLen
    /\ out.name # to_lowercase(out.name)
    /\ out.res.tag = "ok" /\ out.res.val.tag = "some"
    /\ Cardinality(out.res.val.val) = 2

(***************************************************************************)
(* C5: read fails with a malformed-object error exactly when the length    *)
(* declared in the stored frame's header differs from the number of        *)
(* payload bytes after the NUL.                                            *)
(***************************************************************************)
TamperDetection ==
    (out.op = "read" /\ Len(out.sha) = DigestLen /\ ObjectPath(out.sha) \in DOMAIN files) =>
        LET frame == FrameAt(ObjectPath(out.sha)).val
        IN  (out.res.tag = "err" /\ out.res.err = "malformed_object")
                <=> DeclaredLen(frame) # PayloadLen(frame)

(***************************************************************************)
(* C6: find with a wanted kind and one candidate D returns D when the      *)
(* object has that kind; otherwise, without follow, an unknown-object      *)
(* error; with follow, the digest one level on (a tag's object, a commit's *)
(* tree when a tree is wanted), not re-checked; else an unknown-object     *)
(* error.                                                                  *)
(***************************************************************************)
FindFollowsOneLevel ==
    (out.op = "find" /\ out.wanted.tag = "some") =>
        LET r == resolve(files, dirs, head, out.name)
        IN  (r.tag = "ok" /\ r.val.tag = "some" /\ Cardinality(r.val.val) = 1) =>
              LET sha == CHOOSE c \in r.val.val : TRUE
                  o == StoredAt(sha)
              IN  Intact(sha) =>
                    out.res = IF o.kind = out.wanted.val THEN Ok(sha)
                              ELSE IF ~out.follow THEN Err("unknown_object")
                              ELSE IF o.kind = TAG THEN Ok(o.links.object)
                              ELSE IF o.kind = COMMIT /\ out.wanted.val = TREE THEN Ok(o.links.tree)
                              ELSE Err("unknown_object")

(***************************************************************************)
(* C7: graphviz from a commit with an empty seen set returns, expands each *)
(* reachable commit at most once and prints exactly one edge for every     *)
(* (commit, parent) pair of the commits reachable from the start, on       *)
(* chains, diamonds and parent cycles alike.                               *)
(***************************************************************************)
ParentsOf(sha) == IF sha \in StoredShas THEN Range(StoredAt(sha).links.parents) ELSE {}

RECURSIVE ReachableFrom(_)
ReachableFrom(S) ==
    LET more == S \cup UNION {ParentsOf(c) : c \in S}
    IN  IF more = S THEN S ELSE ReachableFrom(more)

EdgesFrom(sha) == {<<c, parent>> : c \in ReachableFrom({sha}), parent \in StoredShas} \cap
                  {e \in StoredShas \X StoredShas : e[2] \in ParentsOf(e[1])}

AncestryExport ==
    (/\ out.op = "graphviz"
     /\ out.sha \in StoredShas
     /\ StoredAt(out.sha).kind = COMMIT
     /\ \A c \in ReachableFrom({out.sha}) : Intact(c)) =>
        /\ out.res.tag = "ok"
        /\ Range(out.printed) = EdgesFrom(out.sha)
        /\ Len(out.printed) = Cardinality(EdgesFrom(out.sha))
        /\ \A i, j \in 1..Len(out.seen) : out.seen[i] = out.seen[j] => i = j

(***************************************************************************)
(* C8: checkout of a tree of blobs and trees succeeds and leaves one file  *)
(* per blob leaf, holding the blob's payload, and one directory per tree   *)
(* leaf, recursively; at a leaf that is a tag or a commit it returns an    *)
(* error naming that leaf's path and kind, handles no later leaf and       *)
(* keeps what it wrote before.                                             *)
(***************************************************************************)
RECURSIVE Materialised(_, _, _, _, _)
Materialised(leaves, i, path, f, d) ==
    IF i > Len(leaves) THEN [ok |-> TRUE, files |-> f, dirs |-> d, path |-> <<>>, kind |-> <<>>]
    ELSE LET o == StoredAt(leaves[i].sha)
             dest == path \o <<leaves[i].path>>
         IN  IF o.kind = BLOB
             THEN Materialised(leaves, i + 1, path,
                               [p \in DOMAIN f \cup {dest} |-> IF p = dest THEN o.data ELSE f[p]], d)
             ELSE IF o.kind = TREE
             THEN LET sub == Materialised(o.links.leaves, 1, dest, f, d \cup {dest})
                  IN  IF sub.ok THEN Materialised(leaves, i + 1, path, sub.files, sub.dirs) ELSE sub
             ELSE [ok |-> FALSE, files |-> f, dirs |-> d, path |-> dest, kind |-> o.kind]

CheckoutMaterialises ==
    [][(out'.op = "checkout" /\ \A sha \in StoredShas : Intact(sha)) =>
          LET e == Materialised(out'.leaves, 1, out'.path, files, dirs)
          IN  /\ files' = e.files
              /\ dirs' = e.dirs
              /\ IF e.ok THEN out'.res.tag = "ok"
                 ELSE /\ out'.res.tag = "err"
                      /\ out'.res.err = "unknown_object"
                      /\ out'.res.val.kind = e.kind
                      /\ out'.res.val.path = e.path]_vars

(***************************************************************************)
(* C9: objects are insert-only: a persisting write of the object with      *)
(* digest D touches the entry of D alone; every file that held another     *)
(* object before the write holds the same bytes after it.                  *)
(***************************************************************************)
ObjectsInsertOnly ==
    [][(out'.op = "write" /\ out'.actually_write) =>
          LET sha == Sha1(Frame(fmt(out'.obj), out'.obj.payload))
          IN  \A p \in DOMAIN files :
                  (FrameAt(p).tag = "ok" /\ Sha1(FrameAt(p).val) # sha) =>
                      p \in DOMAIN files' /\ files'[p] = files[p]]_vars

(***************************************************************************)
(* C10: each scan variant returns the index, counted from the beginning of *)
(* the sequence, of the first occurrence of the element at or after the    *)
(* start offset; without one find_from fails, find_some is absent and      *)
(* find_signed is -1.                                                      *)
(***************************************************************************)
ScanReturnsIndexInSequence ==
    out.op \in {"find_from", "find_some", "find_signed", "find_exact"} =>
        LET hits == {i \in out.start..(Len(out.s) - 1) : out.s[i + 1] = out.element}
        IN  IF hits # {}
            THEN /\ out.op \in {"find_from", "find_exact"} =>
                        out.res.tag = "ok" /\ out.res.val = Min(hits)
                 /\ out.op = "find_some" => out.res.tag = "some" /\ out.res.val = Min(hits)
                 /\ out.op = "find_signed" => out.res = Min(hits)
            ELSE /\ out.op = "find_from" => out.res.tag = "err"
                 /\ out.op = "find_some" => out.res.tag = "none"
                 /\ out.op = "find_signed" => out.res = -1

====
